---- MODULE Spec2Model ----
(***************************************************************************)
(* Banana Expert AI server (src/app.py): model loading at process start    *)
(* and the POST /detect handler, as a state machine.                       *)
(*                                                                         *)
(* Confidences are integers in units of 1e-4 (0.42 is 4200); the           *)
(* confidence a response reports is in units of 1e-3, as round(x, 3)       *)
(* leaves it.  Sequence positions are 1-based, so best_idx here is         *)
(* numpy's best_idx + 1.                                                   *)
(***************************************************************************)
EXTENDS Integers, Sequences, FiniteSets, TLC

VARIABLES
    proc,         \* "starting" | "serving" | "aborted": the process
    boot,         \* position in the module-level loading code
    MODEL_REAL,   \* the process-wide model: "none" or the artifact loaded
    loadLog,      \* what the loading code did, in order
    pc,           \* position of the detect request in flight
    img,          \* "none" | "decoded" | "resized"
    boxes,        \* results.boxes: the DetectionSet the model returned
    best_idx,     \* 0 until selected
    banana_slug,  \* "" until looked up
    fault,        \* the step of the try body that raised, or "none"
    closeFault,   \* TRUE when file.close() raised in the finally block
    ret,          \* the value of the return statement the handler reached
    response,     \* what the caller of detect receives
    trace         \* the steps this request has run, in order

vars == <<proc, boot, MODEL_REAL, loadLog, pc, img, boxes, best_idx,
          banana_slug, fault, closeFault, ret, response, trace>>

startup == <<proc, boot, MODEL_REAL, loadLog>>
request == <<pc, img, boxes, best_idx, banana_slug, fault, closeFault,
             ret, response, trace>>

\* Longest DetectionSet the model returns here.
MaxDet == 3

PRIMARY == "best_modelv8sbg.pt"
FALLBACK == "best_modelv8nbg.pt"

\* Class ids and confidences the model's detections are drawn from.  The
\* confidences are at or above the conf=0.15 the handler passes to predict;
\* 0.1875 and 0.3125 are exact binary fractions, where round(x, 3) has a tie.
ClsValues == {1, 3, 99}
ConfValues == {1875, 3125, 4200, 8000}

Detection == [cls : ClsValues, conf : ConfValues]
DetectionSets == UNION {[1..n -> Detection] : n \in 0..MaxDet}

\* The acceptance threshold of the specification's scenarios (0.40).
AcceptanceThreshold == 4000

CLASS_KEYS ==
    [i \in 0..9 |->
        CASE i = 0 -> "candyapple"
          [] i = 1 -> "namwa"
          [] i = 2 -> "namwadam"
          [] i = 3 -> "homthong"
          [] i = 4 -> "nak"
          [] i = 5 -> "thepphanom"
          [] i = 6 -> "kai"
          [] i = 7 -> "lepchangkut"
          [] i = 8 -> "ngachang"
          [] i = 9 -> "huamao"]

(***************************************************************************)
(* Outcome objects.                                                        *)
(***************************************************************************)
NoOutcome == [pending |-> TRUE]
RawFault(step) == [raised |-> step]

Success(slug, confidence, count) ==
    [success |-> TRUE, banana_key |-> slug, class_name |-> slug,
     confidence |-> confidence,
     debug |-> [count |-> count, model |-> "YOLOv8-optimized",
                filename |-> "file.filename"]]

Failure(reason) == [success |-> FALSE, reason |-> reason]

ServerError(detail) ==
    [success |-> FALSE, reason |-> "server_error", detail |-> detail]

(***************************************************************************)
(* Pure helpers of the handler.                                            *)
(***************************************************************************)
\* round(float(x), 3): to the nearest 1e-3, a tie to the even neighbour.
Round3(c) ==
    LET q == c \div 10
        r == c % 10
    IN  IF r < 5 THEN q
        ELSE IF r > 5 THEN q + 1
        ELSE IF q % 2 = 0 THEN q ELSE q + 1

RECURSIVE ArgMaxFrom(_, _, _)
ArgMaxFrom(s, i, best) ==
    IF i > Len(s) THEN best
    ELSE ArgMaxFrom(s, i + 1, IF s[i] > s[best] THEN i ELSE best)

RECURSIVE ArgMaxLastFrom(_, _, _)
ArgMaxLastFrom(s, i, best) ==
    IF i > Len(s) THEN best
    ELSE ArgMaxLastFrom(s, i + 1, IF s[i] >= s[best] THEN i ELSE best)

\* A scan that keeps the later of two equal maxima.
ArgMaxLast(s) == ArgMaxLastFrom(s, 2, 1)

\* np.argmax: the first position of the maximum.
ArgMax(s) == ArgMaxFrom(s, 2, 1)

\* A lookup whose default is not the sentinel.
LookupNoDefault(cls) ==
    IF cls \in DOMAIN CLASS_KEYS THEN CLASS_KEYS[cls] ELSE "None"

\* CLASS_KEYS.get(cls, "unknown")
Lookup(cls) ==
    IF cls \in DOMAIN CLASS_KEYS THEN CLASS_KEYS[cls] ELSE "unknown"

Confs(b) == [i \in 1..Len(b) |-> b[i].conf]
Clses(b) == [i \in 1..Len(b) |-> b[i].cls]

Count(s, x) == Cardinality({i \in 1..Len(s) : s[i] = x})
Has(s, x) == \E i \in 1..Len(s) : s[i] = x

(***************************************************************************)
(* Process start: the module-level loading code.                           *)
(***************************************************************************)
Init ==
    /\ proc = "starting"
    /\ boot = "exists"
    /\ MODEL_REAL = "none"
    /\ loadLog = <<>>
    /\ pc = "idle"
    /\ img = "none"
    /\ boxes = <<>>
    /\ best_idx = 0
    /\ banana_slug = ""
    /\ fault = "none"
    /\ closeFault = FALSE
    /\ ret = NoOutcome
    /\ response = NoOutcome
    /\ trace = <<>>

\* os.path.exists(MODEL_PATH) is false: FileNotFoundError, caught.
PrimaryMissing ==
    /\ proc = "starting" /\ boot = "exists"
    /\ loadLog' = Append(loadLog, "primary:missing")
    /\ boot' = "fallback"
    /\ UNCHANGED <<proc, MODEL_REAL>>
    /\ UNCHANGED request

PrimaryExists ==
    /\ proc = "starting" /\ boot = "exists"
    /\ boot' = "primary"
    /\ UNCHANGED <<proc, MODEL_REAL, loadLog>>
    /\ UNCHANGED request

LoadPrimaryOk ==
    /\ proc = "starting" /\ boot = "primary"
    /\ MODEL_REAL' = PRIMARY
    /\ loadLog' = Append(loadLog, "primary:loaded")
    /\ boot' = "loaded"
    /\ proc' = "serving"
    /\ UNCHANGED request

\* YOLO(MODEL_PATH) raises: caught by the except clause.
LoadPrimaryFails ==
    /\ proc = "starting" /\ boot = "primary"
    /\ loadLog' = Append(loadLog, "primary:failed")
    /\ boot' = "fallback"
    /\ UNCHANGED <<proc, MODEL_REAL>>
    /\ UNCHANGED request

LoadFallbackOk ==
    /\ proc = "starting" /\ boot = "fallback"
    /\ MODEL_REAL' = FALLBACK
    /\ loadLog' = Append(loadLog, "fallback:loaded")
    /\ boot' = "loaded"
    /\ proc' = "serving"
    /\ UNCHANGED request

\* A failed fallback load that is swallowed: the server starts without a model.
LoadFallbackSwallowed ==
    /\ proc = "starting" /\ boot = "fallback"
    /\ loadLog' = Append(loadLog, "fallback:failed")
    /\ boot' = "loaded"
    /\ proc' = "serving"
    /\ UNCHANGED MODEL_REAL
    /\ UNCHANGED request

\* YOLO(...) raises inside the except clause: nothing catches it, the import
\* of the module fails and the process ends.
LoadFallbackFails ==
    /\ proc = "starting" /\ boot = "fallback"
    /\ loadLog' = Append(loadLog, "fallback:failed")
    /\ boot' = "failed"
    /\ proc' = "aborted"
    /\ UNCHANGED MODEL_REAL
    /\ UNCHANGED request

(***************************************************************************)
(* POST /detect.                                                           *)
(***************************************************************************)
\* A step of the try body raises: the except clause builds the server_error
\* outcome, and the finally block is next.
Raise(step) ==
    /\ trace' = Append(trace, step)
    /\ fault' = step
    /\ ret' = ServerError(step)
    /\ pc' = "finally"

Begin ==
    /\ proc = "serving" /\ pc = "idle"
    /\ pc' = "read"
    /\ UNCHANGED <<img, boxes, best_idx, banana_slug, fault, closeFault,
                   ret, response, trace>>
    /\ UNCHANGED startup

ReadOk ==
    /\ pc = "read"
    /\ trace' = Append(trace, "read")
    /\ pc' = "decode"
    /\ UNCHANGED <<img, boxes, best_idx, banana_slug, fault, closeFault,
                   ret, response>>
    /\ UNCHANGED startup

ReadRaises ==
    /\ pc = "read"
    /\ Raise("read")
    /\ UNCHANGED <<img, boxes, best_idx, banana_slug, closeFault, response>>
    /\ UNCHANGED startup

DecodeOk ==
    /\ pc = "decode"
    /\ trace' = Append(trace, "decode")
    /\ img' = "decoded"
    /\ pc' = "resize"
    /\ UNCHANGED <<boxes, best_idx, banana_slug, fault, closeFault, ret,
                   response>>
    /\ UNCHANGED startup

\* A handler without the None check: the undecoded image goes on to resize.
DecodeNoneUnchecked ==
    /\ pc = "decode"
    /\ trace' = Append(trace, "decode")
    /\ pc' = "resize"
    /\ UNCHANGED <<img, boxes, best_idx, banana_slug, fault, closeFault,
                   ret, response>>
    /\ UNCHANGED startup

\* cv2.imdecode returns None.
DecodeNone ==
    /\ pc = "decode"
    /\ trace' = Append(trace, "decode")
    /\ ret' = Failure("invalid_image")
    /\ pc' = "finally"
    /\ UNCHANGED <<img, boxes, best_idx, banana_slug, fault, closeFault,
                   response>>
    /\ UNCHANGED startup

\* np.frombuffer or cv2.imdecode raises (an empty buffer, for one).
DecodeRaises ==
    /\ pc = "decode"
    /\ Raise("decode")
    /\ UNCHANGED <<img, boxes, best_idx, banana_slug, closeFault, response>>
    /\ UNCHANGED startup

ResizeOk ==
    /\ pc = "resize"
    /\ trace' = Append(trace, "resize")
    /\ img' = "resized"
    /\ pc' = "predict"
    /\ UNCHANGED <<boxes, best_idx, banana_slug, fault, closeFault, ret,
                   response>>
    /\ UNCHANGED startup

ResizeRaises ==
    /\ pc = "resize"
    /\ Raise("resize")
    /\ UNCHANGED <<img, boxes, best_idx, banana_slug, closeFault, response>>
    /\ UNCHANGED startup

PredictReturns ==
    /\ pc = "predict"
    /\ \E ds \in DetectionSets : boxes' = ds
    /\ trace' = Append(trace, "predict")
    /\ pc' = "boxes"
    /\ UNCHANGED <<img, best_idx, banana_slug, fault, closeFault, ret,
                   response>>
    /\ UNCHANGED startup

\* A handler that calls the model again when the call raised.
PredictRaisesRetry ==
    /\ pc = "predict"
    /\ Count(trace, "predict") < 2
    /\ trace' = Append(trace, "predict")
    /\ UNCHANGED <<pc, img, boxes, best_idx, banana_slug, fault, closeFault,
                   ret, response>>
    /\ UNCHANGED startup

\* A handler whose except clause answers without running the finally block.
PredictRaisesNoFinally ==
    /\ pc = "predict"
    /\ trace' = Append(trace, "predict")
    /\ fault' = "predict"
    /\ ret' = ServerError("predict")
    /\ response' = ServerError("predict")
    /\ pc' = "done"
    /\ UNCHANGED <<img, boxes, best_idx, banana_slug, closeFault>>
    /\ UNCHANGED startup

\* MODEL_REAL.predict(...) raises.
PredictRaises ==
    /\ pc = "predict"
    /\ Raise("predict")
    /\ UNCHANGED <<img, boxes, best_idx, banana_slug, closeFault, response>>
    /\ UNCHANGED startup

\* not results.boxes or len(results.boxes) == 0
NoBoxes ==
    /\ pc = "boxes" /\ boxes = <<>>
    /\ ret' = Failure("no_banana_detected")
    /\ pc' = "finally"
    /\ UNCHANGED <<img, boxes, best_idx, banana_slug, fault, closeFault,
                   response, trace>>
    /\ UNCHANGED startup

\* A handler that rejects a best detection under the acceptance threshold.
SelectThresholded ==
    /\ pc = "boxes" /\ boxes # <<>>
    /\ LET confs == Confs(boxes)
           clses == Clses(boxes)
           best == ArgMax(confs)
           slug == Lookup(clses[best])
       IN  /\ best_idx' = best
           /\ banana_slug' = slug
           /\ ret' = IF confs[best] < AcceptanceThreshold
                     THEN Failure("low_confidence")
                     ELSE Success(slug, Round3(confs[best]), Len(boxes))
    /\ trace' = trace \o <<"select", "lookup">>
    /\ pc' = "finally"
    /\ UNCHANGED <<img, boxes, fault, closeFault, response>>
    /\ UNCHANGED startup

\* Lines 121-138: the best detection, its slug, and the Success outcome.
Select ==
    /\ pc = "boxes" /\ boxes # <<>>
    /\ LET confs == Confs(boxes)
           clses == Clses(boxes)
           best == ArgMax(confs)
           slug == Lookup(clses[best])
       IN  /\ best_idx' = best
           /\ banana_slug' = slug
           /\ ret' = Success(slug, Round3(confs[best]), Len(boxes))
    /\ trace' = trace \o <<"select", "lookup">>
    /\ pc' = "finally"
    /\ UNCHANGED <<img, boxes, fault, closeFault, response>>
    /\ UNCHANGED startup

\* Reading the confidences and classes off the result raises.
SelectRaises ==
    /\ pc = "boxes" /\ boxes # <<>>
    /\ Raise("select")
    /\ UNCHANGED <<img, boxes, best_idx, banana_slug, closeFault, response>>
    /\ UNCHANGED startup

\* finally: await file.close() returns, and the handler's value is delivered.
CloseOk ==
    /\ pc = "finally"
    /\ trace' = Append(trace, "close")
    /\ response' = ret
    /\ pc' = "done"
    /\ UNCHANGED <<img, boxes, best_idx, banana_slug, fault, closeFault, ret>>
    /\ UNCHANGED startup

\* finally: await file.close() raises.  The exception replaces the value of
\* the return statement and leaves detect.
CloseRaises ==
    /\ pc = "finally"
    /\ trace' = Append(trace, "close")
    /\ closeFault' = TRUE
    /\ response' = RawFault("close")
    /\ pc' = "done"
    /\ UNCHANGED <<img, boxes, best_idx, banana_slug, fault, ret>>
    /\ UNCHANGED startup

\* The request is over; the server waits for the next one.
Finish ==
    /\ pc = "done"
    /\ pc' = "idle"
    /\ img' = "none"
    /\ boxes' = <<>>
    /\ best_idx' = 0
    /\ banana_slug' = ""
    /\ fault' = "none"
    /\ closeFault' = FALSE
    /\ ret' = NoOutcome
    /\ response' = NoOutcome
    /\ trace' = <<>>
    /\ UNCHANGED startup

Next ==
    \/ PrimaryMissing
    \/ PrimaryExists
    \/ LoadPrimaryOk
    \/ LoadPrimaryFails
    \/ LoadFallbackOk
    \/ LoadFallbackFails
    \/ Begin
    \/ ReadOk
    \/ ReadRaises
    \/ DecodeOk
    \/ DecodeNone
    \/ DecodeRaises
    \/ ResizeOk
    \/ ResizeRaises
    \/ PredictReturns
    \/ PredictRaises
    \/ NoBoxes
    \/ Select
    \/ SelectRaises
    \/ CloseOk
    \/ CloseRaises
    \/ Finish

Spec == Init /\ [][Next]_vars

(***************************************************************************)
(* Vocabulary of the properties.                                           *)
(***************************************************************************)
IsOutcomeObject(r) == "success" \in DOMAIN r

IsSuccess(r) ==
    /\ IsOutcomeObject(r)
    /\ r.success = TRUE
    /\ "banana_key" \in DOMAIN r
    /\ "confidence" \in DOMAIN r

IsFailure(r) ==
    /\ IsOutcomeObject(r)
    /\ r.success = FALSE
    /\ "reason" \in DOMAIN r

Returning == pc \in {"finally", "done"}

\* The caller got the handler's value, or file.close() raised instead.
Delivered ==
    pc = "done" =>
        IF closeFault THEN response = RawFault("close") ELSE response = ret

PredictReturned == Has(trace, "predict") /\ fault # "predict"
GatingEmpty == PredictReturned /\ boxes = <<>>
DecodeReturnedNone == Has(trace, "decode") /\ fault # "decode" /\ img = "none"

\* The highest confidence of a non-empty DetectionSet, and the first position
\* that holds it, stated without the scan the handler uses.
BestConf(b) ==
    CHOOSE c \in {b[i].conf : i \in 1..Len(b)} :
        \A i \in 1..Len(b) : b[i].conf <= c

FirstBest(b) ==
    CHOOSE i \in 1..Len(b) :
        /\ b[i].conf = BestConf(b)
        /\ \A j \in 1..(i - 1) : b[j].conf < BestConf(b)

SpeciesKeys == {CLASS_KEYS[i] : i \in DOMAIN CLASS_KEYS}

\* A reported confidence (1e-3) is the rounding of c (1e-4).
RoundingOf(reported, c) ==
    /\ 10 * reported - c <= 5
    /\ c - 10 * reported <= 5

(***************************************************************************)
(* C1.  Every detect request whose image decoded ends with exactly one     *)
(* outcome, a Success (success=true, a species key, a confidence) or a     *)
(* Failure (success=false, a reason): never both, never neither.           *)
(***************************************************************************)
C1_ExactlyOneOutcome ==
    (pc = "done" /\ img # "none") =>
        /\ IsSuccess(response) \/ IsFailure(response)
        /\ ~(IsSuccess(response) /\ IsFailure(response))

(***************************************************************************)
(* C2.  detect never raises to its caller: a fault at any step (reading,   *)
(* decoding, resizing, inference, selection, releasing the upload) ends as *)
(* a Failure with reason server_error and a detail.                        *)
(***************************************************************************)
C2_NeverRaises ==
    (pc = "done" /\ (fault # "none" \/ closeFault)) =>
        /\ IsFailure(response)
        /\ response.reason = "server_error"
        /\ "detail" \in DOMAIN response

(***************************************************************************)
(* C3.  When the model returns an empty DetectionSet the outcome is        *)
(* Failure(no_banana_detected) and nothing later runs: no selection, no    *)
(* class lookup, no second model invocation.                               *)
(***************************************************************************)
C3_EmptyVeto ==
    (pc = "done" /\ GatingEmpty) =>
        /\ response = Failure("no_banana_detected")
        /\ ~Has(trace, "select")
        /\ ~Has(trace, "lookup")
        /\ Count(trace, "predict") = 1

(***************************************************************************)
(* C4, as claimed.  When the decoder returns no image the outcome is       *)
(* Failure(invalid_image_format) and the model is never invoked (checked   *)
(* on the requests whose upload was released without a fault).             *)
(***************************************************************************)
C4_Original ==
    (pc = "done" /\ DecodeReturnedNone /\ ~closeFault) =>
        /\ response = Failure("invalid_image_format")
        /\ ~Has(trace, "predict")

(***************************************************************************)
(* C4, amended.  When the decoder returns no image the handler returns     *)
(* Failure with reason invalid_image, the model is never invoked for that  *)
(* request, and the caller receives that Failure unless file.close()       *)
(* raised.                                                                 *)
(***************************************************************************)
C4_InvalidImage ==
    (Returning /\ DecodeReturnedNone) =>
        /\ ret = Failure("invalid_image")
        /\ ~Has(trace, "predict")
        /\ Delivered

C4_Witness ==
    /\ pc = "done"
    /\ DecodeReturnedNone
    /\ response = Failure("invalid_image")

(***************************************************************************)
(* C5, as claimed.  A non-empty DetectionSet whose best confidence is      *)
(* under the acceptance threshold ends as Failure(low_confidence), and a   *)
(* Success is produced only at or above the threshold (checked on the      *)
(* requests in which no step raised).                                      *)
(***************************************************************************)
C5_Original ==
    (pc = "done" /\ PredictReturned /\ boxes # <<>> /\ fault = "none"
        /\ ~closeFault) =>
        /\ BestConf(boxes) < AcceptanceThreshold
              => response = Failure("low_confidence")
        /\ IsSuccess(response) => BestConf(boxes) >= AcceptanceThreshold

(***************************************************************************)
(* C5, amended.  The handler has no acceptance threshold: no outcome ever  *)
(* carries the reason low_confidence, and a non-empty DetectionSet whose   *)
(* confidences and classes were read without a fault makes the handler     *)
(* return Success with the best detection's confidence (rounded to three   *)
(* decimals), however low that confidence is.                              *)
(***************************************************************************)
C5_NoThreshold ==
    /\ IsFailure(ret) => ret.reason # "low_confidence"
    /\ IsFailure(response) => response.reason # "low_confidence"
    /\ (Returning /\ PredictReturned /\ boxes # <<>> /\ fault = "none") =>
          /\ IsSuccess(ret)
          /\ RoundingOf(ret.confidence, BestConf(boxes))
          /\ Delivered

C5_Witness ==
    /\ pc = "done"
    /\ IsSuccess(response)
    /\ BestConf(boxes) < AcceptanceThreshold

(***************************************************************************)
(* C6.  The detection chosen from a non-empty DetectionSet is the one of   *)
(* highest confidence, the first of them in output order when several      *)
(* share it; the species key and the confidence of a Success both come     *)
(* from that detection; the choice depends on the DetectionSet alone.      *)
(***************************************************************************)
C6_BestFirst ==
    /\ (Returning /\ best_idx # 0) =>
          /\ boxes # <<>>
          /\ best_idx = FirstBest(boxes)
    /\ (pc = "done" /\ IsSuccess(response)) =>
          LET d == boxes[FirstBest(boxes)]
          IN  /\ d.cls \in DOMAIN CLASS_KEYS
                    => response.banana_key = CLASS_KEYS[d.cls]
              /\ RoundingOf(response.confidence, d.conf)

C6_Witness ==
    /\ pc = "done"
    /\ IsSuccess(response)
    /\ \E i, j \in 1..Len(boxes) :
          /\ i < j
          /\ boxes[i].conf = BestConf(boxes)
          /\ boxes[j].conf = BestConf(boxes)
          /\ boxes[i].cls # boxes[j].cls
          /\ response.banana_key = CLASS_KEYS[boxes[i].cls]

(***************************************************************************)
(* C7, as claimed.  A selected class id that is no key of the              *)
(* ClassKeyTable ends as Failure(unknown_class_id), and the species key of *)
(* a Success is always a value of the table (the first part checked on the *)
(* requests whose upload was released without a fault).                    *)
(***************************************************************************)
C7_Original ==
    /\ (pc = "done" /\ best_idx # 0 /\ ~closeFault
            /\ boxes[best_idx].cls \notin DOMAIN CLASS_KEYS)
          => response = Failure("unknown_class_id")
    /\ (pc = "done" /\ IsSuccess(response))
          => response.banana_key \in SpeciesKeys

(***************************************************************************)
(* C7, amended.  A selected class id that is no key of the ClassKeyTable   *)
(* makes the handler return Success with the sentinel species key          *)
(* "unknown"; the species key of a Success is a value of the table or      *)
(* "unknown"; no outcome carries the reason unknown_class_id.              *)
(***************************************************************************)
C7_Sentinel ==
    /\ (Returning /\ best_idx # 0) =>
          /\ IsSuccess(ret)
          /\ ret.class_name = ret.banana_key
          /\ IF boxes[best_idx].cls \in DOMAIN CLASS_KEYS
             THEN ret.banana_key = CLASS_KEYS[boxes[best_idx].cls]
             ELSE ret.banana_key = "unknown"
          /\ Delivered
    /\ (pc = "done" /\ IsSuccess(response))
          => response.banana_key \in SpeciesKeys \cup {"unknown"}
    /\ IsFailure(response) => response.reason # "unknown_class_id"

C7_Witness ==
    /\ pc = "done"
    /\ IsSuccess(response)
    /\ boxes[best_idx].cls = 99
    /\ response.banana_key = "unknown"

(***************************************************************************)
(* C8.  On every exit path of a request (Success, invalid image, no        *)
(* banana, a raised fault) file.close() has been called, once, as the      *)
(* last step before the request completes; so also when the model          *)
(* invocation raised.                                                      *)
(***************************************************************************)
C8_Released ==
    /\ pc = "done" =>
          /\ Count(trace, "close") = 1
          /\ trace[Len(trace)] = "close"
    /\ response # NoOutcome => Has(trace, "close")

C8_Witness ==
    /\ pc = "done"
    /\ fault = "predict"
    /\ Has(trace, "close")

(***************************************************************************)
(* C9, as claimed.  When the model invocation raises, a fallback model     *)
(* stage is invoked for the same request (checked on the requests whose    *)
(* upload was released without a fault).                                   *)
(***************************************************************************)
C9_Original ==
    (pc = "done" /\ fault = "predict" /\ ~closeFault) =>
        Count(trace, "predict") = 2

(***************************************************************************)
(* C9, amended.  A request invokes the model at most once.  When that      *)
(* invocation raises, no fallback stage runs: the handler returns          *)
(* Failure(server_error) with the fault as detail, and neither selection   *)
(* nor class lookup happens.                                               *)
(***************************************************************************)
C9_NoFallbackStage ==
    /\ Count(trace, "predict") <= 1
    /\ (Returning /\ fault = "predict") =>
          /\ ret = ServerError("predict")
          /\ ~Has(trace, "select")
          /\ ~Has(trace, "lookup")
          /\ Delivered

C9_Witness ==
    /\ pc = "done"
    /\ fault = "predict"
    /\ response = ServerError("predict")

(***************************************************************************)
(* C10.  Model loading at start: the primary artifact is tried first, the  *)
(* fallback artifact only after the primary was missing or failed to       *)
(* load; the first that loads is the process-wide model; when neither      *)
(* loads the process aborts.  No request is handled without a model, and   *)
(* once the server serves, no step changes the model or loads again.       *)
(***************************************************************************)
LoadOrder ==
    /\ Len(loadLog) <= 2
    /\ \A i \in 1..Len(loadLog) :
          /\ loadLog[i] \in {"fallback:loaded", "fallback:failed"} =>
                /\ i = 2
                /\ loadLog[1] \in {"primary:missing", "primary:failed"}
          /\ loadLog[i] \in {"primary:missing", "primary:failed",
                             "primary:loaded"} => i = 1

LoadOutcome ==
    /\ MODEL_REAL = PRIMARY <=> loadLog = <<"primary:loaded">>
    /\ MODEL_REAL = FALLBACK <=>
          (Len(loadLog) = 2 /\ loadLog[2] = "fallback:loaded")
    /\ proc = "aborted" <=>
          (Len(loadLog) = 2 /\ loadLog[2] = "fallback:failed")
    /\ proc = "serving" <=> MODEL_REAL \in {PRIMARY, FALLBACK}
    /\ MODEL_REAL \in {"none", PRIMARY, FALLBACK}

ServedWithModel == pc # "idle" => (proc = "serving" /\ MODEL_REAL # "none")

ModelFixedOnceServing ==
    proc = "serving" =>
        /\ MODEL_REAL' = MODEL_REAL
        /\ loadLog' = loadLog
        /\ proc' = proc

C10_LoadedOrAborted ==
    /\ [](LoadOrder /\ LoadOutcome /\ ServedWithModel)
    /\ [][ModelFixedOnceServing]_vars

C10_Witness ==
    /\ pc = "done"
    /\ MODEL_REAL = FALLBACK
    /\ loadLog = <<"primary:failed", "fallback:loaded">>
    /\ IsSuccess(response)

====
